---------------------------- MODULE Spec2Model ----------------------------
(***************************************************************************)
(* The AI Interior Decorator (src/app.py): a Streamlit script that is run  *)
(* top to bottom on every UI interaction.  One run initialises the client, *)
(* draws the sidebar, and, when the button was pressed, calls the image    *)
(* generation service (generate_room_image), then the multimodal analysis  *)
(* service (extract_product_data), and renders a grid of shopping links.   *)
(*                                                                         *)
(* The SDK (google.genai) and the two hosted services are the environment: *)
(* which attributes the installed SDK exposes is fixed for the process,    *)
(* what a call returns or raises is chosen anew at every call.             *)
(*                                                                         *)
(* Texts are sequences of tokens.  A token is a character, Ch(c), or a     *)
(* whole JSON object literal, Obj(d), d being the dict it denotes.         *)
(***************************************************************************)
EXTENDS Integers, Sequences, FiniteSets, TLC

\* Bounds of the explored inputs.
MaxItems == 2      \* longest JSON array, over CoreObjects, in a response text
MaxQueryLen == 3   \* longest query string drawn from QueryChars

None == "None"

---------------------------------------------------------------------------
(* Text: tokens, str.strip, str.startswith, str.replace                    *)

Ch(c) == [c |-> c]
Obj(d) == [o |-> d]
Str(s) == [i \in 1..Len(s) |-> Ch(s[i])]

IsCh(t, chars) == "c" \in DOMAIN t /\ t.c \in chars
IsObj(t) == "o" \in DOMAIN t

\* The backquote character (a string may not hold it in this notation).
Backtick == "backtick"

\* What str.strip() with no argument removes.
Whitespace == {" ", "\n"}

RECURSIVE LStrip(_, _)
LStrip(s, chars) ==
    IF Len(s) > 0 /\ IsCh(s[1], chars) THEN LStrip(Tail(s), chars) ELSE s

RECURSIVE RStrip(_, _)
RStrip(s, chars) ==
    IF Len(s) > 0 /\ IsCh(s[Len(s)], chars)
    THEN RStrip(SubSeq(s, 1, Len(s) - 1), chars)
    ELSE s

\* str.strip(chars): removes from both ends every character that is in the
\* SET of characters of its argument (not a prefix or suffix equal to it).
Strip(s, chars) == RStrip(LStrip(s, chars), chars)

StartsWith(s, p) == Len(s) >= Len(p) /\ SubSeq(s, 1, Len(p)) = p

RECURSIVE ReplaceFirstOnly(_, _, _)
ReplaceFirstOnly(s, old, new) ==
    IF s = <<>> THEN <<>>
    ELSE IF s[1] = old THEN <<new>> \o Tail(s)
    ELSE <<s[1]>> \o ReplaceFirstOnly(Tail(s), old, new)

\* str.replace(old, new) for one-character old and new.
RECURSIVE Replace(_, _, _)
Replace(s, old, new) ==
    IF s = <<>> THEN <<>>
    ELSE <<IF s[1] = old THEN new ELSE s[1]>> \o Replace(Tail(s), old, new)

---------------------------------------------------------------------------
(* json.loads on token texts.  Values: null, a dict, a list of these.      *)

JNull == [kind |-> "null"]
JDict(d) == [kind |-> "dict", d |-> d]
JList(es) == [kind |-> "list", elems |-> es]

ParseError == [ok |-> FALSE]
Parsed(v) == [ok |-> TRUE, value |-> v]

NullText == Str(<<"n", "u", "l", "l">>)

\* The array grammar, from the token after "[": st is "start" (a value or
\* "]" may follow), "value" (a "," or "]" may follow) or "comma" (a value
\* must follow).  Nothing but whitespace may follow the closing "]".
RECURSIVE ParseArray(_, _, _, _)
ParseArray(t, i, st, acc) ==
    IF i > Len(t) THEN ParseError
    ELSE IF IsCh(t[i], Whitespace) THEN ParseArray(t, i + 1, st, acc)
    ELSE IF t[i] = Ch("]")
         THEN IF st # "comma" /\ i = Len(t) THEN Parsed(JList(acc))
              ELSE ParseError
    ELSE IF t[i] = Ch(",")
         THEN IF st = "value" THEN ParseArray(t, i + 1, "comma", acc)
              ELSE ParseError
    ELSE IF st = "value" THEN ParseError
    ELSE IF IsObj(t[i])
         THEN ParseArray(t, i + 1, "value", Append(acc, JDict(t[i].o)))
    ELSE IF i + 3 <= Len(t) /\ SubSeq(t, i, i + 3) = NullText
         THEN ParseArray(t, i + 4, "value", Append(acc, JNull))
    ELSE ParseError

JsonLoads(text) ==
    LET t == Strip(text, Whitespace) IN
    IF t = NullText THEN Parsed(JNull)
    ELSE IF Len(t) = 1 /\ IsObj(t[1]) THEN Parsed(JDict(t[1].o))
    ELSE IF Len(t) > 0 /\ t[1] = Ch("[") THEN ParseArray(t, 2, "start", <<>>)
    ELSE ParseError

---------------------------------------------------------------------------
(* The inputs: widget values, uploaded files, SDK shapes, service answers  *)

Redesign == "Redesign Existing Room"
Scratch == "Design from Scratch"
Modes == {Redesign, Scratch}

\* Two of the seven styles of the select box; the first is its default.
Styles == {"Modern Minimalist", "Cyberpunk"}
DefaultNotes == "e.g., Make the sofa dark blue, add a large rug."
NotesTexts == {DefaultNotes, "Add plants."}

\* Files the uploader may hold; PIL cannot open the last one.
Photos == {"room.jpg", "other.png", "broken.jpg"}
ImageOpens(f) == f # "broken.jpg"

\* Images the generation service may answer with.
GeneratedImages == {"render-1", "render-2"}

\* Which names the installed SDK exposes: the two entry points of
\* client.models and the config class of google.genai.types.
SdkShapes ==
    [generate_image : BOOLEAN, generate_images : BOOLEAN,
     GenerateImageConfig : BOOLEAN]

\* What a generation call that reaches the service may do: raise (an
\* attribute error from inside the SDK, or any other error), answer without
\* a list of images, with an empty list, or with a first entry whose image
\* is set or is None.
ServiceOutcomes ==
    {[kind |-> "raises", exc |-> e] : e \in {"AttributeError", "APIError"}}
    \cup {[kind |-> "no_list"], [kind |-> "empty_list"]}
    \cup {[kind |-> "image", image |-> i] : i \in GeneratedImages \cup {None}}

Sofa ==
    [name |-> "Velvet Sofa", color |-> "Navy",
     query |-> <<"n", "a", "v", "y", " ", "v", "e", "l", "v", "e", "t", " ",
                 "s", "o", "f", "a">>]
Rug == [name |-> "Wool Rug", color |-> "Cream", query |-> <<"r", "u", "g">>]
LampNoQuery == [name |-> "Floor Lamp", color |-> "Brass"]
ChairEmptyColor == [name |-> "Chair", color |-> "", query |-> <<"c">>]
CoreObjects == {Sofa, Rug, LampNoQuery, ChairEmptyColor}

QueryChars == {"a", " ", "+"}
Queries == UNION {[1..n -> QueryChars] : n \in 0..MaxQueryLen}
QueryObject(q) == [name |-> "Item", color |-> "Any", query |-> q]

RECURSIVE JoinValues(_)
JoinValues(toks) ==
    IF Len(toks) = 0 THEN <<>>
    ELSE IF Len(toks) = 1 THEN toks[1]
    ELSE toks[1] \o <<Ch(",")>> \o JoinValues(Tail(toks))

\* json.dumps of a list whose values are written as the token texts vals.
ArrayText(vals) == <<Ch("[")>> \o JoinValues(vals) \o <<Ch("]")>>
ObjectsText(objs) == ArrayText([i \in 1..Len(objs) |-> <<Obj(objs[i])>>])

ObjectLists == UNION {[1..n -> CoreObjects] : n \in 0..MaxItems}

ArrayBodies == {ObjectsText(objs) : objs \in ObjectLists}
QueryBodies == {ObjectsText(<<QueryObject(q)>>) : q \in Queries}
OtherBodies ==
    { NullText,
      <<Obj(Sofa)>>,
      ArrayText(<<NullText, <<Obj(Rug)>>>>),
      <<Ch("["), Obj(Sofa), Ch(",")>>,
      <<Ch("["), Obj(Sofa), Ch(","), Ch("]")>>,
      <<Ch("["), Obj(Sofa), Ch(","), Ch(" "), Obj(Rug), Ch("]")>>,
      Str(<<"h", "i">>),
      <<>> }

Fence == Str(<<Backtick, Backtick, Backtick>>)
FenceJson == Fence \o Str(<<"j", "s", "o", "n">>)
NL == Str(<<"\n">>)

\* How the model's answer may be wrapped: bare, padded with whitespace, or
\* in a code fence, with or without the json tag and the line breaks.
Wrappers ==
    { [open |-> <<>>, close |-> <<>>],
      [open |-> Str(<<" ">>), close |-> NL],
      [open |-> FenceJson \o NL, close |-> NL \o Fence],
      [open |-> Fence \o NL, close |-> NL \o Fence \o NL],
      [open |-> FenceJson, close |-> Fence],
      [open |-> Fence, close |-> Fence] }

Texts ==
    {w.open \o b \o w.close : w \in Wrappers, b \in ArrayBodies \cup OtherBodies}
    \cup QueryBodies

\* What the analysis call may do: raise, answer with no text, or with a text.
AnalysisOutcomes ==
    {[kind |-> "raises", exc |-> "APIError"], [kind |-> "no_text"]}
    \cup {[kind |-> "text", text |-> t] : t \in Texts}

---------------------------------------------------------------------------
(* The state                                                               *)

VARIABLES
    api_key,        \* os.environ.get("GEMINI_API_KEY"): None or the key
    sdk,            \* the names the installed SDK exposes
    client,         \* the module-level client: None or "Client"
    mode, uploaded_file, style, notes, run_btn,   \* the sidebar's widgets
    pc,             \* where the current run of the script is
    original_image, \* generate_room_image's third argument
    prompt,         \* generate_room_image's local prompt
    new_room_img,   \* what generate_room_image returned
    response,       \* what the analysis call did, NoValue before it
    json_text,      \* the text handed to json.loads, NoValue before that
    items,          \* what extract_product_data returned
    calls,          \* the requests that reached a hosted service, this run
    outcomes,       \* what each generation attempt of this run met
    ui,             \* st.error / st.warning / st.info messages of this run
    shown,          \* what the two columns and the product grid show
    raised          \* an exception escaped the script (the run was aborted)

widgets == <<mode, uploaded_file, style, notes, run_btn>>
run_state ==
    <<original_image, prompt, new_room_img, response, json_text, items,
      calls, outcomes, ui, shown, raised>>
vars == <<api_key, sdk, client, widgets, pc, run_state>>

NoValue == [kind |-> "none"]
SomeText(t) == [kind |-> "text", text |-> t]

\* The state a run of the script starts in.
FreshRun ==
    /\ original_image = None
    /\ prompt = <<>>
    /\ new_room_img = None
    /\ response = NoValue
    /\ json_text = NoValue
    /\ items = JList(<<>>)
    /\ calls = <<>>
    /\ outcomes = <<>>
    /\ ui = <<>>
    /\ shown = <<>>
    /\ raised = FALSE

\* The first run, on page load: every widget at its default.
Init ==
    /\ api_key \in {None, "key"}
    /\ sdk \in SdkShapes
    /\ client = None
    /\ mode = Redesign
    /\ uploaded_file = None
    /\ style = "Modern Minimalist"
    /\ notes = DefaultNotes
    /\ run_btn = FALSE
    /\ pc = "setup"
    /\ FreshRun

---------------------------------------------------------------------------
(* generate_room_image                                                     *)

Msg(level, text) == [level |-> level, text |-> text]
MsgExc(level, text, exc) == [level |-> level, text |-> text, exc |-> exc]

GenerationModel == "imagen-3.0-generate-001"
AnalysisModel == "gemini-2.0-flash"

GenPromptWithImage(st, user_notes, img) ==
    <<"A photorealistic interior design photo of a ", st, " room. ",
      user_notes,
      ". High quality, 8k resolution, architectural photography.", img>>

\* The f-string of the prompt: the third argument is not read.
GenPrompt(st, user_notes, img) ==
    <<"A photorealistic interior design photo of a ", st, " room. ",
      user_notes,
      ". High quality, 8k resolution, architectural photography.">>

\* The request an entry point of client.models receives.
GenCall(api, p) ==
    [api |-> api, model |-> GenerationModel, prompt |-> p,
     number_of_images |-> 1]

\* What evaluating client.models.<api>(model=, prompt=, config=
\* types.GenerateImageConfig(...)) and reading generated_images[0].image
\* can meet: the callee is looked up first, then the arguments are built,
\* then the call is made.
AttemptOutcomes(api) ==
    IF ~sdk[api] THEN {[kind |-> "absent"]}
    ELSE IF ~sdk.GenerateImageConfig THEN {[kind |-> "no_config"]}
    ELSE ServiceOutcomes

\* The request reached the service.
Issued(o) == o.kind \notin {"absent", "no_config"}

\* The exception an outcome other than an image raises in the try block.
RaisedBy(o) ==
    CASE o.kind \in {"absent", "no_config"} -> "AttributeError"
      [] o.kind = "raises" -> o.exc
      [] o.kind = "no_list" -> "TypeError"
      [] o.kind = "empty_list" -> "IndexError"

\* except AttributeError: the class decides, whatever raised it.
IsAttributeError(exc) == exc = "AttributeError"

PrimaryFailureMessages(exc) ==
    <<MsgExc("error", "Image Generation Failed", exc)>>

FallbackFailureSilent(exc) == <<>>

FallbackFailureMessages(exc) ==
    <<MsgExc("error", "Generation Error (Check Library Version)", exc)>>

\* if not client: return None; else the prompt is built.
GenerateStart ==
    /\ pc = "generate"
    /\ IF client = None
       THEN /\ new_room_img' = None
            /\ pc' = "result"
            /\ UNCHANGED prompt
       ELSE /\ prompt' = GenPrompt(style, notes, original_image)
            /\ pc' = "primary"
            /\ UNCHANGED new_room_img
    /\ UNCHANGED <<api_key, sdk, client, widgets, original_image, response,
                   json_text, items, calls, outcomes, ui, shown, raised>>

\* Attempt 1 and its two except clauses.
PrimaryAttempt ==
    /\ pc = "primary"
    /\ \E o \in AttemptOutcomes("generate_image") :
         /\ calls' = IF Issued(o)
                     THEN Append(calls, GenCall("generate_image", prompt))
                     ELSE calls
         /\ outcomes' = Append(outcomes, [api |-> "generate_image", met |-> o])
         /\ IF o.kind = "image"
            THEN /\ new_room_img' = o.image
                 /\ pc' = "result"
                 /\ UNCHANGED ui
            ELSE IF IsAttributeError(RaisedBy(o))
            THEN /\ pc' = "fallback"
                 /\ UNCHANGED <<new_room_img, ui>>
            ELSE /\ ui' = ui \o PrimaryFailureMessages(RaisedBy(o))
                 /\ new_room_img' = None
                 /\ pc' = "result"
    /\ UNCHANGED <<api_key, sdk, client, widgets, original_image, prompt,
                   response, json_text, items, shown, raised>>

\* Attempt 2, inside except AttributeError, and its except Exception.
FallbackAttempt ==
    /\ pc = "fallback"
    /\ \E o \in AttemptOutcomes("generate_images") :
         /\ calls' = IF Issued(o)
                     THEN Append(calls, GenCall("generate_images", prompt))
                     ELSE calls
         /\ outcomes' = Append(outcomes, [api |-> "generate_images", met |-> o])
         /\ IF o.kind = "image"
            THEN /\ new_room_img' = o.image
                 /\ UNCHANGED ui
            ELSE /\ ui' = ui \o FallbackFailureMessages(RaisedBy(o))
                 /\ new_room_img' = None
         /\ pc' = "result"
    /\ UNCHANGED <<api_key, sdk, client, widgets, original_image, prompt,
                   response, json_text, items, shown, raised>>

---------------------------------------------------------------------------
(* extract_product_data                                                    *)

ExtractPrompt ==
    <<"Analyze this interior design image. Identify 5 distinct furniture or decor items visible.",
      "Return the result as a JSON list.",
      "Each item must have:",
      "- \"name\": The name of the item (e.g., \"Velvet Sofa\")",
      "- \"color\": The specific color/material",
      "- \"query\": A precise Google Shopping search query",
      "Return ONLY raw JSON. No markdown formatting.">>

ExtractCall(image) ==
    [api |-> "generate_content", model |-> AnalysisModel, image |-> image,
     prompt |-> ExtractPrompt]

FenceJsonChars == {Backtick, "j", "s", "o", "n"}
FenceChars == {Backtick}

\* json_text = response.text.strip(); if it starts with the fence:
\* json_text.strip("```json").strip("```").
CleanText(text) ==
    LET trimmed == Strip(text, Whitespace) IN
    IF StartsWith(trimmed, Fence)
    THEN Strip(Strip(trimmed, FenceJsonChars), FenceChars)
    ELSE trimmed

ExtractWarning(exc) == <<MsgExc("warning", "Could not extract products", exc)>>

ReturnsNone == JNull

\* return []
EmptyList == JList(<<>>)

\* The try block and its except Exception, for what the analysis call did:
\* the value returned, the warning shown, the text json.loads was given.
ExtractReturn(o) ==
    IF o.kind = "raises"
    THEN [items |-> EmptyList, warned |-> ExtractWarning(o.exc),
          json_text |-> NoValue]
    ELSE IF o.kind = "no_text"
    THEN [items |-> EmptyList, warned |-> ExtractWarning("AttributeError"),
          json_text |-> NoValue]
    ELSE LET cleaned == CleanText(o.text)
             parsed == JsonLoads(cleaned)
         IN  IF parsed.ok
             THEN [items |-> parsed.value, warned |-> <<>>,
                   json_text |-> SomeText(cleaned)]
             ELSE [items |-> EmptyList,
                   warned |-> ExtractWarning("JSONDecodeError"),
                   json_text |-> SomeText(cleaned)]

ExtractProductData ==
    /\ pc = "extract"
    /\ IF client = None
       THEN /\ items' = EmptyList
            /\ UNCHANGED <<response, json_text, calls, ui>>
       ELSE \E o \in AnalysisOutcomes :
              LET r == ExtractReturn(o) IN
              /\ calls' = Append(calls, ExtractCall(new_room_img))
              /\ response' = o
              /\ json_text' = r.json_text
              /\ items' = r.items
              /\ ui' = ui \o r.warned
    /\ pc' = "grid"
    /\ UNCHANGED <<api_key, sdk, client, widgets, original_image, prompt,
                   new_room_img, outcomes, shown, raised>>

---------------------------------------------------------------------------
(* The script: client set-up, sidebar, main area, generation trigger       *)

\* api_key = os.environ.get(...); client = genai.Client(...) or None.
Setup ==
    /\ pc = "setup"
    /\ \E constructed \in BOOLEAN :
         IF api_key = None
         THEN /\ client' = None
              /\ UNCHANGED ui
         ELSE IF constructed
         THEN /\ client' = "Client"
              /\ UNCHANGED ui
         ELSE /\ client' = None
              /\ ui' = Append(ui, MsgExc("error", "Error initializing AI Client",
                                         "Exception"))
    /\ pc' = "sidebar"
    /\ UNCHANGED <<api_key, sdk, widgets, original_image, prompt, new_room_img,
                   response, json_text, items, calls, outcomes, shown, raised>>

MissingKeyWarning ==
    Msg("warning", "API Key missing. Please check your settings.")

\* with st.sidebar: the widgets, and the warning when no key is set.
Sidebar ==
    /\ pc = "sidebar"
    /\ ui' = ui
             \o (IF mode = Redesign THEN <<>>
                 ELSE <<Msg("info", "Creative Mode: Describe your dream room below.")>>)
             \o (IF api_key = None THEN <<MissingKeyWarning>> ELSE <<>>)
    /\ pc' = "display"
    /\ UNCHANGED <<api_key, sdk, client, widgets, original_image, prompt,
                   new_room_img, response, json_text, items, calls, outcomes,
                   shown, raised>>

\* Case 1 / Case 2 of the logic handler: the left column.  Image.open of a
\* file PIL cannot read raises, which ends the run.
Display ==
    /\ pc = "display"
    /\ IF mode = Redesign /\ uploaded_file # None
       THEN IF ImageOpens(uploaded_file)
            THEN /\ shown' = Append(shown, [original |-> uploaded_file])
                 /\ pc' = "trigger"
                 /\ UNCHANGED <<ui, raised>>
            ELSE /\ raised' = TRUE
                 /\ pc' = "done"
                 /\ UNCHANGED <<ui, shown>>
       ELSE IF mode = Redesign
       THEN /\ ui' = Append(ui, Msg("info", "Please upload an image to start."))
            /\ pc' = "trigger"
            /\ UNCHANGED <<shown, raised>>
       ELSE /\ shown' = Append(shown, [concept |-> <<style, notes>>])
            /\ pc' = "trigger"
            /\ UNCHANGED <<ui, raised>>
    /\ UNCHANGED <<api_key, sdk, client, widgets, original_image, prompt,
                   new_room_img, response, json_text, items, calls, outcomes>>

\* if run_btn and api_key:
TriggerFires == run_btn /\ api_key # None

ValidationSkipped == FALSE

\* if mode == "Redesign Existing Room" and not uploaded_file:
ValidationRejects == mode = Redesign /\ uploaded_file = None

\* The third argument of the call generate_room_image(style, notes, None).
ImageArgument == None

UploadFirstError == Msg("error", "Please upload an image first!")

\* The generation trigger up to the call of generate_room_image; st.stop()
\* ends the run.
Trigger ==
    /\ pc = "trigger"
    /\ IF ~TriggerFires
       THEN /\ pc' = "done"
            /\ UNCHANGED <<ui, original_image>>
       ELSE IF ValidationRejects
       THEN /\ ui' = Append(ui, UploadFirstError)
            /\ pc' = "done"
            /\ UNCHANGED original_image
       ELSE /\ original_image' = ImageArgument
            /\ pc' = "generate"
            /\ UNCHANGED ui
    /\ UNCHANGED <<api_key, sdk, client, widgets, prompt, new_room_img,
                   response, json_text, items, calls, outcomes, shown, raised>>

ImageReturnedAlways(img) == TRUE

\* if new_room_img: (an image is true, None is not)
ImageReturned(img) == img # None

\* The result column, and the headings of the product analysis.
ShowResult ==
    /\ pc = "result"
    /\ IF ImageReturned(new_room_img)
       THEN /\ shown' = Append(shown, [result |-> new_room_img])
            /\ pc' = "extract"
       ELSE /\ pc' = "done"
            /\ UNCHANGED shown
    /\ UNCHANGED <<api_key, sdk, client, widgets, original_image, prompt,
                   new_room_img, response, json_text, items, calls, outcomes,
                   ui, raised>>

---------------------------------------------------------------------------
(* The product grid                                                        *)

LinkPrefix == "https://www.google.com/search?q="
LinkSuffix == "&tbm=shop"

BuildLinkFirstSpace(query) ==
    <<LinkPrefix>> \o ReplaceFirstOnly(query, " ", "+") \o <<LinkSuffix>>

\* q = item['query'].replace(" ", "+") inside the link's f-string.
BuildLink(query) == <<LinkPrefix>> \o Replace(query, " ", "+") \o <<LinkSuffix>>

\* if items: (a non-empty list or dict is true; None and [] are not)
Truthy(v) ==
    \/ v.kind = "list" /\ Len(v.elems) > 0
    \/ v.kind = "dict" /\ DOMAIN v.d # {}

\* What for i, item in enumerate(items) goes through: the elements of a
\* list, the keys of a dict.
Iterated(v) ==
    IF v.kind = "list" THEN v.elems
    ELSE [i \in 1..Cardinality(DOMAIN v.d) |-> [kind |-> "str"]]

\* One pass of the loop body, in column col: the widgets drawn until a
\* subscript raises (item is no dict: TypeError; a key is missing: KeyError).
RenderItem(item, col) ==
    IF item.kind # "dict" THEN [drawn |-> <<>>, raised |-> TRUE]
    ELSE LET d == item.d IN
         IF "name" \notin DOMAIN d THEN [drawn |-> <<>>, raised |-> TRUE]
         ELSE IF "color" \notin DOMAIN d
         THEN [drawn |-> <<[col |-> col, info |-> d.name]>>, raised |-> TRUE]
         ELSE IF "query" \notin DOMAIN d
         THEN [drawn |-> <<[col |-> col, info |-> d.name],
                           [col |-> col, caption |-> d.color]>>,
               raised |-> TRUE]
         ELSE [drawn |-> <<[col |-> col, info |-> d.name],
                           [col |-> col, caption |-> d.color],
                           [col |-> col, link |-> BuildLink(d.query)]>>,
               raised |-> FALSE]

\* The loop from its i-th pass (i counts from 1; enumerate counts from 0).
RECURSIVE RenderItems(_, _)
RenderItems(elems, i) ==
    IF i > Len(elems) THEN [drawn |-> <<>>, raised |-> FALSE]
    ELSE LET one == RenderItem(elems[i], (i - 1) % 3) IN
         IF one.raised THEN one
         ELSE LET rest == RenderItems(elems, i + 1) IN
              [drawn |-> one.drawn \o rest.drawn, raised |-> rest.raised]

\* if items: the grid.  An exception of the loop body escapes the script.
RenderGrid ==
    /\ pc = "grid"
    /\ IF Truthy(items)
       THEN LET r == RenderItems(Iterated(items), 1) IN
            /\ shown' = shown \o r.drawn
            /\ raised' = r.raised
       ELSE UNCHANGED <<shown, raised>>
    /\ pc' = "done"
    /\ UNCHANGED <<api_key, sdk, client, widgets, original_image, prompt,
                   new_room_img, response, json_text, items, calls, outcomes,
                   ui>>

---------------------------------------------------------------------------
(* The user                                                                *)

\* Any interaction with a widget reruns the script from the top.  The
\* uploader exists only in redesign mode; the button is True only in the
\* run its press started.
Interact ==
    /\ pc = "done"
    /\ mode' \in Modes
    /\ uploaded_file' \in (IF mode' = Redesign THEN Photos \cup {None} ELSE {None})
    /\ style' \in Styles
    /\ notes' \in NotesTexts
    /\ run_btn' \in BOOLEAN
    /\ pc' = "setup"
    /\ original_image' = None
    /\ prompt' = <<>>
    /\ new_room_img' = None
    /\ response' = NoValue
    /\ json_text' = NoValue
    /\ items' = JList(<<>>)
    /\ calls' = <<>>
    /\ outcomes' = <<>>
    /\ ui' = <<>>
    /\ shown' = <<>>
    /\ raised' = FALSE
    /\ UNCHANGED <<api_key, sdk, client>>

Next ==
    \/ Setup
    \/ Sidebar
    \/ Display
    \/ Trigger
    \/ GenerateStart
    \/ PrimaryAttempt
    \/ FallbackAttempt
    \/ ShowResult
    \/ ExtractProductData
    \/ RenderGrid
    \/ Interact

Spec == Init /\ [][Next]_vars

---------------------------------------------------------------------------
(* Properties                                                              *)

IndicesOf(api) == {i \in DOMAIN calls : calls[i].api = api}

\* generate_room_image was entered with a client and has returned.
GenerationReturned ==
    pc \in {"result", "extract", "grid", "done"} /\ Len(outcomes) > 0

LastOutcome == outcomes[Len(outcomes)].met

HasField(r, f) == f \in DOMAIN r
Errors == {i \in DOMAIN ui : ui[i].level = "error"}
GridWidgets ==
    {i \in DOMAIN shown :
        HasField(shown[i], "info") \/ HasField(shown[i], "caption")
        \/ HasField(shown[i], "link")}

\* C1: whenever generate_image is absent on the client, generate_images is
\* invoked exactly once, with the same model, the same prompt and the output
\* count 1, before a failure is reported or a result is returned.  (Read for
\* the SDKs that have generate_images: a name no SDK has cannot be invoked.)
C1_AlternateInvokedWhenPrimaryAbsent ==
    (GenerationReturned /\ ~sdk.generate_image /\ sdk.generate_images) =>
        /\ Cardinality(IndicesOf("generate_images")) = 1
        /\ \A i \in IndicesOf("generate_images") :
             calls[i] = [api |-> "generate_images",
                         model |-> "imagen-3.0-generate-001",
                         prompt |-> prompt, number_of_images |-> 1]

\* C2: generate_images is invoked only when the primary call failed because
\* generate_image does not exist on the client; when it exists and its
\* attempt fails for another reason the alternate is never invoked and the
\* operation fails; no run issues more than the one fallback call.
C2_AlternateOnlyOnInterfaceMismatch ==
    /\ IndicesOf("generate_images") # {} => ~sdk.generate_image
    /\ (GenerationReturned /\ sdk.generate_image
        /\ outcomes[1].met.kind # "image") => new_room_img = None
    /\ Cardinality(IndicesOf("generate_image")) <= 1
    /\ Cardinality(IndicesOf("generate_images")) <= 1

\* C3: generate_room_image lets no exception escape; whenever its last
\* attempt failed (entry point or config absent, call error, missing or
\* empty image list) it has returned None and recorded an error message
\* that carries the exception.
C3_FailureIsNoneWithError ==
    (pc = "result" /\ Len(outcomes) > 0) =>
        /\ ~raised
        /\ new_room_img \in GeneratedImages \cup {None}
        /\ LastOutcome.kind # "image" =>
             /\ new_room_img = None
             /\ \E i \in Errors :
                  /\ HasField(ui[i], "exc")
                  /\ ui[i].exc = RaisedBy(LastOutcome)
                  /\ ui[i].text \in {"Image Generation Failed",
                                     "Generation Error (Check Library Version)"}

\* C3's case: the primary entry point is absent and the alternate answers
\* with an empty image list.
C3_Witness ==
    /\ pc = "result"
    /\ Len(outcomes) = 2
    /\ outcomes[1].met.kind = "absent"
    /\ outcomes[2].met.kind = "empty_list"
    /\ new_room_img = None

\* C4: in one run the analysis call is made at most once, after every
\* generation call and only when generate_room_image returned an image, the
\* one it is given; when generation returned None there is no analysis call
\* and no product grid.
C4_ExtractionOnlyAfterImage ==
    /\ Cardinality(IndicesOf("generate_content")) <= 1
    /\ \A i \in IndicesOf("generate_content") :
         /\ i = Len(calls)
         /\ pc \in {"grid", "done"}
         /\ Len(outcomes) > 0
         /\ LastOutcome.kind = "image"
         /\ LastOutcome.image \in GeneratedImages
         /\ calls[i].image = LastOutcome.image
    /\ (new_room_img = None \/ pc \in {"primary", "fallback", "result"}) =>
         /\ IndicesOf("generate_content") = {}
         /\ GridWidgets = {}

\* C4's case: both entry points were called, the primary raised, the
\* alternate returned an image, and the analysis call followed.
C4_Witness ==
    /\ pc = "done"
    /\ Len(calls) = 3
    /\ calls[3].api = "generate_content"
    /\ GridWidgets # {}

\* C5: a service is called only in a run started by the button, with the
\* key set and, in redesign mode, a file uploaded; redesign mode without a
\* file is rejected with an error and no call; without a key no call is made
\* and every run shows the missing-key warning.
C5_CallsOnlyWhenTriggered ==
    /\ Len(calls) > 0 =>
         /\ run_btn
         /\ api_key # None
         /\ mode = "Design from Scratch" \/ uploaded_file # None
    /\ (pc = "done" /\ run_btn /\ api_key # None
        /\ mode = "Redesign Existing Room" /\ uploaded_file = None) =>
         /\ \E i \in Errors : ui[i].text = "Please upload an image first!"
         /\ Len(calls) = 0
         /\ Len(outcomes) = 0
    /\ api_key = None =>
         /\ Len(calls) = 0
         /\ pc \notin {"setup", "sidebar"} =>
              \E i \in DOMAIN ui :
                 /\ ui[i].level = "warning"
                 /\ ui[i].text = "API Key missing. Please check your settings."

\* C5's case: the button was pressed in redesign mode with no file.
C5_Witness ==
    /\ pc = "done"
    /\ run_btn
    /\ api_key # None
    /\ client # None
    /\ mode = "Redesign Existing Room"
    /\ uploaded_file = None

\* The text between the fence markers of a trimmed text that starts with
\* one: without the opening marker, the json tag when it follows, and the
\* closing marker when the text ends with one.
DropFirst(s, n) == SubSeq(s, n + 1, Len(s))
DropLast(s, n) == SubSeq(s, 1, Len(s) - n)
EndsWith(s, p) == Len(s) >= Len(p) /\ SubSeq(s, Len(s) - Len(p) + 1, Len(s)) = p
JsonTag == Str(<<"j", "s", "o", "n">>)
Unfenced(t) ==
    LET opened == DropFirst(t, 3)
        untagged == IF StartsWith(opened, JsonTag) THEN DropFirst(opened, 4)
                    ELSE opened
    IN  IF EndsWith(untagged, Fence) THEN DropLast(untagged, 3) ELSE untagged

\* C6: for a trimmed response text that starts with a fence marker, exactly
\* the opening marker with its optional json tag and the closing marker are
\* removed and nothing of the enclosed content; a text that does not start
\* with a fence marker reaches the parser trimmed and otherwise unchanged.
C6_FenceStripExact ==
    (pc \in {"grid", "done"} /\ response.kind = "text") =>
        LET trimmed == Strip(response.text, {" ", "\n"}) IN
        /\ json_text.kind = "text"
        /\ json_text.text = IF StartsWith(trimmed, Fence) THEN Unfenced(trimmed)
                            ELSE trimmed

NotWhitespace(t) == ~IsCh(t, {" ", "\n"})
ObjectsIn(text) ==
    LET toks == SelectSeq(text, IsObj) IN [i \in 1..Len(toks) |-> toks[i].o]

\* The text is a JSON array of records (whitespace apart).
IsRecordArray(text) ==
    SelectSeq(text, NotWhitespace) = ObjectsText(ObjectsIn(text))

\* C7: extract_product_data raises nothing; for a response text that is a
\* JSON array of records it returns exactly those records in their order;
\* when the call fails, or the text handed to the parser is not valid JSON,
\* it returns the empty list and shows a warning.
C7_RecordsOrEmptyWithWarning ==
    pc = "grid" =>
        /\ ~raised
        /\ response.kind # "none"
        /\ (response.kind = "text" /\ IsRecordArray(response.text)) =>
             /\ items.kind = "list"
             /\ Len(items.elems) = Len(ObjectsIn(response.text))
             /\ \A i \in DOMAIN items.elems :
                  /\ items.elems[i].kind = "dict"
                  /\ items.elems[i].d = ObjectsIn(response.text)[i]
        /\ (\/ response.kind \in {"raises", "no_text"}
            \/ json_text.kind = "text" /\ ~JsonLoads(json_text.text).ok) =>
             /\ items = [kind |-> "list", elems |-> <<>>]
             /\ \E i \in DOMAIN ui :
                  /\ ui[i].level = "warning"
                  /\ ui[i].text = "Could not extract products"

\* C7's case: a bare array of two different records came back.
C7_Witness ==
    /\ pc = "grid"
    /\ response.kind = "text"
    /\ response.text = <<Ch("["), Obj(Rug), Ch(","), Obj(Sofa), Ch("]")>>
    /\ items.kind = "list"
    /\ Len(items.elems) = 2

WellFormedItem(e) ==
    /\ e.kind = "dict"
    /\ {"name", "color", "query"} \subseteq DOMAIN e.d
    /\ e.d.name # ""
    /\ e.d.color # ""
    /\ Len(e.d.query) > 0

\* C8: what extract_product_data returns is a list of records that each
\* have a non-empty name, color and query (a malformed entry is dropped),
\* so that rendering the grid meets no record without one of them.
C8_ItemsWellFormed ==
    pc \in {"grid", "done"} =>
        /\ items.kind = "list"
        /\ \A i \in DOMAIN items.elems : WellFormedItem(items.elems[i])
        /\ response.kind # "none" => ~raised

Links ==
    LET with == SelectSeq(shown, LAMBDA w : HasField(w, "link")) IN
    [i \in 1..Len(with) |-> with[i].link]

\* C9: the link rendered for an item is the fixed prefix, then the query
\* with every space turned into + and every other character kept in place,
\* then &tbm=shop; every item of a grid that rendered to its end has one.
C9_LinkIsQueryWithPlusForSpace ==
    (pc = "done" /\ items.kind = "list") =>
        /\ Len(Links) <= Len(items.elems)
        /\ ~raised => Len(Links) = Len(items.elems)
        /\ \A i \in DOMAIN Links :
             LET q == items.elems[i].d.query
                 link == Links[i]
             IN  /\ Len(link) = Len(q) + 2
                 /\ link[1] = "https://www.google.com/search?q="
                 /\ link[Len(link)] = "&tbm=shop"
                 /\ \A k \in 1..Len(q) :
                      link[k + 1] = IF q[k] = " " THEN "+" ELSE q[k]

\* C9's case: the query navy velvet sofa was rendered as a link.
C9_Witness ==
    /\ pc = "done"
    /\ \E i \in DOMAIN shown :
         /\ HasField(shown[i], "link")
         /\ shown[i].link =
              <<"https://www.google.com/search?q=",
                "n", "a", "v", "y", "+", "v", "e", "l", "v", "e", "t", "+",
                "s", "o", "f", "a", "&tbm=shop">>

\* The requests a run issues, rebuilt from the style, the notes and what the
\* services did, without the mode or the uploaded file.
RECURSIVE GenerationRequests(_, _, _)
GenerationRequests(st, user_notes, met) ==
    IF Len(met) = 0 THEN <<>>
    ELSE (IF met[1].met.kind \in {"absent", "no_config"} THEN <<>>
          ELSE <<[api |-> met[1].api, model |-> "imagen-3.0-generate-001",
                  prompt |-> <<"A photorealistic interior design photo of a ",
                               st, " room. ", user_notes,
                               ". High quality, 8k resolution, architectural photography.">>,
                  number_of_images |-> 1]>>)
         \o GenerationRequests(st, user_notes, Tail(met))

AnalysisRequests(met, answered) ==
    IF answered.kind = "none" THEN <<>>
    ELSE <<[api |-> "generate_content", model |-> "gemini-2.0-flash",
            image |-> met[Len(met)].met.image, prompt |-> ExtractPrompt]>>

\* C10: the uploaded file never reaches a service: generate_room_image is
\* given None for it, and the requests of a run are a function of the style,
\* the notes and the services' behaviour alone, so two runs that differ only
\* in the uploaded image issue identical requests.
C10_RequestsIndependentOfUpload ==
    /\ original_image = None
    /\ calls = GenerationRequests(style, notes, outcomes)
               \o AnalysisRequests(outcomes, response)

\* C10's case: a run in redesign mode with an uploaded photo that went
\* through both services.
C10_Witness ==
    /\ pc = "done"
    /\ mode = "Redesign Existing Room"
    /\ uploaded_file = "other.png"
    /\ Len(calls) >= 2
    /\ calls[Len(calls)].api = "generate_content"

=============================================================================
